---- MODULE Spec2Model ----
(***************************************************************************)
(* Model of consensus_app.py: the fund pipeline behind the "Cargar/        *)
(* Actualizar Datos" button (get_funds, load_data and the display code)    *)
(* and its two data-processing functions, filter_similar_funds and         *)
(* process_stock_appearances.                                              *)
(*                                                                         *)
(* A fund name is a sequence of one-character strings.  A fund record is   *)
(* [Id, Fund, Stocks]: Id stands for the row's SecId (and the Return10A    *)
(* that travels with it), Fund is LegalName, Stocks the ticker list.       *)
(* A DataFrame of funds is a sequence of records; the stock-count          *)
(* DataFrame is a function from ticker to count (its row order comes from  *)
(* pandas' value_counts and is not modelled).                              *)
(***************************************************************************)
EXTENDS Integers, Sequences, FiniteSets, TLC

(***************************************************************************)
(* Bounds                                                                  *)
(***************************************************************************)
\* rows returned by one screener page (the code asks for pageSize 50)
MaxRows == 2
\* records in an input handed directly to the two functions
MaxRecs == 3

(***************************************************************************)
(* Program constants                                                       *)
(***************************************************************************)
MIN_APPEARANCES == 6
SIMILARITY_THRESHOLD == 85
\* default of filter_similar_funds' similarity_threshold parameter
DefaultSimilarityThreshold == 85
\* default of process_stock_appearances' min_appearances parameter
DefaultMinAppearances == 4
\* range(1, 3)
FirstPage == 1
LastPage == 2

(***************************************************************************)
(* Names and tickers used as inputs                                        *)
(***************************************************************************)
Str_a == <<"a">>
Str_aa == <<"a", "a">>
Str_ab == <<"a", "b">>
Str_bb == <<"b", "b">>
Str_aaa == <<"a", "a", "a">>
Str_aaaa == <<"a", "a", "a", "a">>
FundA == <<"F", "u", "n", "d", " ", "A">>
FundAPlus == <<"F", "u", "n", "d", " ", "A", " ", "P", "l", "u", "s">>
FundB == <<"F", "u", "n", "d", " ", "B">>

\* names of the inputs handed directly to filter_similar_funds
FnNames == {Str_aa, Str_ab, Str_bb, Str_aaa}
\* LegalName values the screener rows carry in the pipeline
RowNames == {Str_aaa, Str_aaaa, Str_bb, Str_ab, Str_a}
AllNames == FnNames \cup RowNames \cup {Str_a, FundA, FundAPlus, FundB}

FnStockLists == {<< >>, <<"AAPL">>, <<"GOOG", "AAPL">>}
RowStockLists == {<<"AAPL", "GOOG">>}
FnThresholds == {0, 40, 85, 100}
FnMinAppearances == {1, 2}

(***************************************************************************)
(* fuzz.ratio: difflib.SequenceMatcher matching blocks, 2*M/T, rounded     *)
(***************************************************************************)
MinOf(x, y) == IF x <= y THEN x ELSE y

\* all common blocks <<i, j, k>>: a[i..i+k-1] = b[j..j+k-1]
CommonBlocks(a, b) ==
    {t \in (1..Len(a)) \X (1..Len(b)) \X (1..MinOf(Len(a), Len(b))) :
        /\ t[1] + t[3] - 1 <= Len(a)
        /\ t[2] + t[3] - 1 <= Len(b)
        /\ SubSeq(a, t[1], t[1] + t[3] - 1) = SubSeq(b, t[2], t[2] + t[3] - 1)}

\* SequenceMatcher.find_longest_match: longest block, earliest in a, then
\* earliest in b
find_longest_match(a, b) ==
    LET B == CommonBlocks(a, b)
    IN  CHOOSE t \in B : \A u \in B :
            \/ t[3] > u[3]
            \/ t[3] = u[3] /\ t[1] < u[1]
            \/ t[3] = u[3] /\ t[1] = u[1] /\ t[2] <= u[2]

\* SequenceMatcher.get_matching_blocks: total size of the matching blocks
RECURSIVE MatchedChars(_, _)
MatchedChars(a, b) ==
    IF CommonBlocks(a, b) = {} THEN 0
    ELSE LET m == find_longest_match(a, b)
             i == m[1]
             j == m[2]
             k == m[3]
         IN  k + MatchedChars(SubSeq(a, 1, i - 1), SubSeq(b, 1, j - 1))
               + MatchedChars(SubSeq(a, i + k, Len(a)), SubSeq(b, j + k, Len(b)))

\* utils.intr: int(round(100 * 2.0 * M / T)), Python 3 rounds halves to even
intr(num, den) ==
    LET q == num \div den
        r == num % den
    IN  IF 2 * r < den THEN q
        ELSE IF 2 * r > den THEN q + 1
        ELSE IF q % 2 = 0 THEN q ELSE q + 1

\* fuzz.ratio with its decorators: equal strings 100, an empty string 0
ratio_of(s1, s2) ==
    IF s1 = s2 THEN 100
    ELSE IF Len(s1) = 0 \/ Len(s2) = 0 THEN 0
    ELSE intr(200 * MatchedChars(s1, s2), Len(s1) + Len(s2))

ratioTable == [p \in AllNames \X AllNames |-> ratio_of(p[1], p[2])]

ratio(s1, s2) == ratioTable[<<s1, s2>>]

\* fuzz.partial_ratio: the best ratio of the shorter string against a
\* window of the longer one
partial_ratio(s1, s2) ==
    LET short == IF Len(s1) <= Len(s2) THEN s1 ELSE s2
        long == IF Len(s1) <= Len(s2) THEN s2 ELSE s1
        scores == {ratio_of(short, SubSeq(long, w, w + Len(short) - 1)) :
                      w \in 1..(Len(long) - Len(short) + 1)}
    IN  CHOOSE s \in scores : \A u \in scores : u <= s

(***************************************************************************)
(* filter_similar_funds                                                    *)
(***************************************************************************)
\* funds_df['Fund'].tolist()
FundColumn(funds_df) == [i \in 1..Len(funds_df) |-> funds_df[i].Fund]

\* variant: the candidate is compared with funds[:i+1], itself included
filter_similar_funds_inclusive(funds_df, similarity_threshold) ==
    LET funds == FundColumn(funds_df)
        funds_to_keep ==
            {funds[i] : i \in {n \in 1..Len(funds) :
                \A j \in 1..n : ratio(funds[n], funds[j]) <= similarity_threshold}}
    IN  SelectSeq(funds_df, LAMBDA r : r.Fund \in funds_to_keep)

\* variant: fuzz.partial_ratio in place of fuzz.ratio
filter_similar_funds_partial(funds_df, similarity_threshold) ==
    LET funds == FundColumn(funds_df)
        funds_to_keep ==
            {funds[i] : i \in {n \in 1..Len(funds) :
                \A j \in 1..(n - 1) :
                    partial_ratio(funds[n], funds[j]) <= similarity_threshold}}
    IN  SelectSeq(funds_df, LAMBDA r : r.Fund \in funds_to_keep)

\* variant: >= in place of >
filter_similar_funds_geq(funds_df, similarity_threshold) ==
    LET funds == FundColumn(funds_df)
        funds_to_keep ==
            {funds[i] : i \in {n \in 1..Len(funds) :
                \A j \in 1..(n - 1) :
                    ratio(funds[n], funds[j]) < similarity_threshold}}
    IN  SelectSeq(funds_df, LAMBDA r : r.Fund \in funds_to_keep)

\* funds[i] is appended to funds_to_keep unless it scores above the
\* threshold against some funds[j], j < i (kept or not); the result is the
\* rows whose name is in funds_to_keep (isin)
filter_similar_funds(funds_df, similarity_threshold) ==
    LET funds == FundColumn(funds_df)
        funds_to_keep ==
            {funds[i] : i \in {n \in 1..Len(funds) :
                \A j \in 1..(n - 1) :
                    ratio(funds[n], funds[j]) <= similarity_threshold}}
    IN  SelectSeq(funds_df, LAMBDA r : r.Fund \in funds_to_keep)

(***************************************************************************)
(* process_stock_appearances                                               *)
(***************************************************************************)
\* [stock for stocks in df['Stocks'] if stocks for stock in stocks]
RECURSIVE FlattenStocks(_)
FlattenStocks(df) ==
    IF df = << >> THEN << >>
    ELSE Head(df).Stocks \o FlattenStocks(Tail(df))

\* pd.Series(stocks).value_counts()
RECURSIVE CountIn(_, _)
CountIn(stocks, t) ==
    IF stocks = << >> THEN 0
    ELSE (IF Head(stocks) = t THEN 1 ELSE 0) + CountIn(Tail(stocks), t)

value_counts(stocks) ==
    [t \in {stocks[i] : i \in 1..Len(stocks)} |-> CountIn(stocks, t)]

\* variant: the 'GOOG' row is not dropped
process_stock_appearances_keep_goog(df, min_appearances) ==
    LET stock_counts == value_counts(FlattenStocks(df))
        kept == {t \in DOMAIN stock_counts : stock_counts[t] >= min_appearances}
    IN  [t \in kept |-> stock_counts[t]]

process_stock_appearances(df, min_appearances) ==
    LET stock_counts == value_counts(FlattenStocks(df))
        kept == {t \in DOMAIN stock_counts \ {"GOOG"} :
                    stock_counts[t] >= min_appearances}
    IN  [t \in kept |-> stock_counts[t]]

EmptyFrame == [t \in {} |-> 0]

(***************************************************************************)
(* State                                                                   *)
(***************************************************************************)
VARIABLES
    pc,          \* position of the button handler
    page,        \* get_funds: the page of the outer loop
    pos,         \* get_funds: 1-based index of the current row of the page
    nrows,       \* get_funds: number of rows of the current page
    fund_data,   \* get_funds: the records collected so far
    warnings,    \* st.warning calls of this run, in order
    df_stocks,   \* the frame load_data returned
    errorShown,  \* st.error was called
    tableShown,  \* the table, chart, metrics and download were rendered
    fn_pc,       \* direct use of the two functions: stage
    fn_input,    \* the frame handed to filter_similar_funds
    fn_threshold,
    fn_min,
    fn_kept,     \* result of filter_similar_funds
    fn_tally     \* result of process_stock_appearances

pipeVars == <<pc, page, pos, nrows, fund_data, warnings, df_stocks,
              errorShown, tableShown>>
fnVars == <<fn_pc, fn_input, fn_threshold, fn_min, fn_kept, fn_tally>>
vars == <<pipeVars, fnVars>>

PipeIdle ==
    /\ pc = "idle"
    /\ page = 0
    /\ pos = 0
    /\ nrows = 0
    /\ fund_data = << >>
    /\ warnings = << >>
    /\ df_stocks = EmptyFrame
    /\ errorShown = FALSE
    /\ tableShown = FALSE

FnIdle ==
    /\ fn_pc = "unused"
    /\ fn_input = << >>
    /\ fn_threshold = 0
    /\ fn_min = 0
    /\ fn_kept = << >>
    /\ fn_tally = EmptyFrame

(***************************************************************************)
(* The pipeline: button handler, load_data, get_funds                      *)
(***************************************************************************)
Init == PipeIdle /\ FnIdle

\* the page loop moves on: range(1, 3), then the code after the loop
AdvancePage ==
    /\ pos' = 0
    /\ nrows' = 0
    /\ IF page < LastPage
       THEN pc' = "fetch" /\ page' = page + 1
       ELSE pc' = "finish" /\ page' = page

\* the row loop moves on to the next row, or the page is exhausted
AdvanceRow ==
    IF pos < nrows
    THEN pc' = "rows" /\ pos' = pos + 1 /\ UNCHANGED <<page, nrows>>
    ELSE AdvancePage

\* st.button pressed: the script reruns, the cache is cleared and load_data
\* calls get_funds
Refresh ==
    /\ pc \in {"idle", "done"}
    /\ pc' = "fetch"
    /\ page' = FirstPage
    /\ pos' = 0
    /\ nrows' = 0
    /\ fund_data' = << >>
    /\ warnings' = << >>
    /\ df_stocks' = EmptyFrame
    /\ errorShown' = FALSE
    /\ tableShown' = FALSE
    /\ UNCHANGED fnVars

\* get_morningstar_data returns a page with n rows
FetchPageOk ==
    /\ pc = "fetch"
    /\ \E n \in 0..MaxRows :
          IF n = 0 THEN AdvancePage
          ELSE pc' = "rows" /\ pos' = 1 /\ nrows' = n /\ page' = page
    /\ UNCHANGED <<fund_data, warnings, df_stocks, errorShown, tableShown>>
    /\ UNCHANGED fnVars

\* get_morningstar_data raises: the outer except warns and continues
FetchPageFail ==
    /\ pc = "fetch"
    /\ warnings' = Append(warnings, <<"page", page>>)
    /\ AdvancePage
    /\ UNCHANGED <<fund_data, df_stocks, errorShown, tableShown>>
    /\ UNCHANGED fnVars

\* 'RV' not in row.get('CategoryName', ''): continue
RowNotRV ==
    /\ pc = "rows"
    /\ AdvanceRow
    /\ UNCHANGED <<fund_data, warnings, df_stocks, errorShown, tableShown>>
    /\ UNCHANGED fnVars

\* the category test itself raises (CategoryName is null, the row is not a
\* mapping): it is outside the inner try, so the outer except takes it
RowCategoryError ==
    /\ pc = "rows"
    /\ warnings' = Append(warnings, <<"page", page>>)
    /\ AdvancePage
    /\ UNCHANGED <<fund_data, df_stocks, errorShown, tableShown>>
    /\ UNCHANGED fnVars

\* variant: the inner except ends the row loop (break) after warning
RowFundErrorBreak ==
    /\ pc = "rows"
    /\ warnings' = Append(warnings, <<"fund", <<page, pos>>>>)
    /\ AdvancePage
    /\ UNCHANGED <<fund_data, df_stocks, errorShown, tableShown>>
    /\ UNCHANGED fnVars

\* row['SecId'], mstarpy.Funds, fund.holdings, the country filter or
\* row['LegalName'] / row['ReturnM120'] raises: the inner except warns
RowFundError ==
    /\ pc = "rows"
    /\ warnings' = Append(warnings, <<"fund", <<page, pos>>>>)
    /\ AdvanceRow
    /\ UNCHANGED <<fund_data, df_stocks, errorShown, tableShown>>
    /\ UNCHANGED fnVars

\* us_stocks is empty: nothing is appended
RowNoUsStocks ==
    /\ pc = "rows"
    /\ AdvanceRow
    /\ UNCHANGED <<fund_data, warnings, df_stocks, errorShown, tableShown>>
    /\ UNCHANGED fnVars

\* fund_data.append({...})
RowAppend ==
    /\ pc = "rows"
    /\ \E name \in RowNames, stocks \in RowStockLists :
          fund_data' = Append(fund_data,
                              [Id |-> <<page, pos>>, Fund |-> name,
                               Stocks |-> stocks])
    /\ AdvanceRow
    /\ UNCHANGED <<warnings, df_stocks, errorShown, tableShown>>
    /\ UNCHANGED fnVars

\* the tail of get_funds: both functions are called with their defaults
get_funds_result(data) ==
    IF data = << >> THEN EmptyFrame
    ELSE process_stock_appearances(
             filter_similar_funds(data, DefaultSimilarityThreshold),
             DefaultMinAppearances)

\* get_funds returns; load_data reports an empty frame with st.error and
\* returns an empty frame, else returns the frame
LoadDataReturn ==
    /\ pc = "finish"
    /\ LET df == get_funds_result(fund_data)
       IN  /\ errorShown' = (df = EmptyFrame)
           /\ df_stocks' = IF df = EmptyFrame THEN EmptyFrame ELSE df
    /\ pc' = "loaded"
    /\ UNCHANGED <<page, pos, nrows, fund_data, warnings, tableShown>>
    /\ UNCHANGED fnVars

\* if not df_stocks.empty: table, chart, metrics, download button
Display ==
    /\ pc = "loaded"
    /\ tableShown' = (df_stocks # EmptyFrame)
    /\ pc' = "done"
    /\ UNCHANGED <<page, pos, nrows, fund_data, warnings, df_stocks, errorShown>>
    /\ UNCHANGED fnVars

Next ==
    \/ Refresh
    \/ FetchPageOk
    \/ FetchPageFail
    \/ RowNotRV
    \/ RowCategoryError
    \/ RowFundError
    \/ RowNoUsStocks
    \/ RowAppend
    \/ LoadDataReturn
    \/ Display

Spec == Init /\ [][Next]_vars

(***************************************************************************)
(* The two functions applied directly to bounded inputs                    *)
(***************************************************************************)
ScenarioFunds ==
    << [Id |-> <<0, 1>>, Fund |-> FundA, Stocks |-> <<"AAPL", "MSFT">>],
       [Id |-> <<0, 2>>, Fund |-> FundAPlus, Stocks |-> <<"AAPL">>],
       [Id |-> <<0, 3>>, Fund |-> FundB, Stocks |-> <<"AAPL", "GOOG">>] >>

FnFrames(n) ==
    {[i \in 1..n |-> [Id |-> <<0, i>>, Fund |-> f[i][1], Stocks |-> f[i][2]]] :
        f \in [1..n -> FnNames \X FnStockLists]}

FnInputs == UNION {FnFrames(n) : n \in 0..MaxRecs} \cup {ScenarioFunds}

InitFn ==
    /\ PipeIdle
    /\ fn_pc = "start"
    /\ fn_input \in FnInputs
    /\ fn_threshold = 0
    /\ fn_min = 0
    /\ fn_kept = << >>
    /\ fn_tally = EmptyFrame

\* filter_similar_funds(fn_input, t)
FnDedupe ==
    /\ fn_pc = "start"
    /\ \E t \in FnThresholds :
          /\ fn_threshold' = t
          /\ fn_kept' = filter_similar_funds(fn_input, t)
    /\ fn_pc' = "deduped"
    /\ UNCHANGED <<fn_input, fn_min, fn_tally>>
    /\ UNCHANGED pipeVars

\* process_stock_appearances(fn_kept, m) on the deduplicated frame
FnTally ==
    /\ fn_pc = "deduped"
    /\ \E m \in FnMinAppearances :
          /\ fn_min' = m
          /\ fn_tally' = process_stock_appearances(fn_kept, m)
    /\ fn_pc' = "tallied"
    /\ UNCHANGED <<fn_input, fn_threshold, fn_kept>>
    /\ UNCHANGED pipeVars

\* process_stock_appearances(fn_input, m) on the frame as given
FnTallyInput ==
    /\ fn_pc = "start"
    /\ \E m \in FnMinAppearances :
          /\ fn_min' = m
          /\ fn_tally' = process_stock_appearances(fn_input, m)
    /\ fn_pc' = "tallied_input"
    /\ UNCHANGED <<fn_input, fn_threshold, fn_kept>>
    /\ UNCHANGED pipeVars

NextFn ==
    \/ FnDedupe
    \/ FnTally
    \/ FnTallyInput

SpecFn == InitFn /\ [][NextFn]_vars

(***************************************************************************)
(* Helpers of the properties                                               *)
(***************************************************************************)
Tickers == {"AAPL", "GOOG", "MSFT"}

Deduped == fn_pc \in {"deduped", "tallied"}

RECURSIVE IsSubsequence(_, _)
IsSubsequence(s, t) ==
    IF s = << >> THEN TRUE
    ELSE IF t = << >> THEN FALSE
    ELSE IF Head(s) = Head(t) THEN IsSubsequence(Tail(s), Tail(t))
    ELSE IsSubsequence(s, Tail(t))

\* number of positions of the frame's stock lists that hold ticker t
Occurrences(df, t) ==
    Cardinality({q \in (1..Len(df)) \X (1..10) :
                    /\ q[2] <= Len(df[q[1]].Stocks)
                    /\ df[q[1]].Stocks[q[2]] = t})

\* the greedy deduplication: each candidate is compared with the names
\* kept so far
RECURSIVE GreedyFrom(_, _, _)
GreedyFrom(records, kept, threshold) ==
    IF records = << >> THEN kept
    ELSE LET c == Head(records)
             similar == \E k \in 1..Len(kept) :
                            ratio(c.Fund, kept[k].Fund) > threshold
         IN  GreedyFrom(Tail(records),
                        IF similar THEN kept ELSE Append(kept, c),
                        threshold)

GreedyDedupe(records, threshold) == GreedyFrom(records, << >>, threshold)

\* the rows whose name no earlier row carries
FirstOccurrences(records) ==
    LET first == {i \in 1..Len(records) :
                     \A j \in 1..(i - 1) : records[j].Fund # records[i].Fund}
        RECURSIVE pick(_)
        pick(i) == IF i > Len(records) THEN << >>
                   ELSE (IF i \in first THEN <<records[i]>> ELSE << >>) \o pick(i + 1)
    IN  pick(1)

Survives(i) == \E k \in 1..Len(fn_kept) : fn_kept[k] = fn_input[i]

FirstIndexOf(name) ==
    CHOOSE i \in 1..Len(fn_input) :
        /\ fn_input[i].Fund = name
        /\ \A j \in 1..(i - 1) : fn_input[j].Fund # name

(***************************************************************************)
(* Properties of filter_similar_funds and process_stock_appearances        *)
(* (specification SpecFn)                                                  *)
(***************************************************************************)

\* C1: any two records that both survive filter_similar_funds score at most
\* the threshold against each other, two records with the same name
\* (score 100) included.
C1_KeptPairsWithinThreshold ==
    Deduped =>
        \A i, j \in 1..Len(fn_kept) :
            i < j => ratio(fn_kept[j].Fund, fn_kept[i].Fund) <= fn_threshold

ScenarioRun ==
    /\ fn_pc = "tallied"
    /\ fn_input = ScenarioFunds
    /\ fn_threshold = 85
    /\ fn_min = 2

\* C2 as stated: on the scenario input with threshold 85, "Fund A Plus" is
\* dropped, "Fund A" and "Fund B" are kept, and the tally of the
\* deduplicated funds with minimum 2 is {AAPL: 2}.
C2_ScenarioDropsFundAPlus ==
    ScenarioRun =>
        /\ FundColumn(fn_kept) = <<FundA, FundB>>
        /\ fn_tally = [t \in {"AAPL"} |-> 2]

\* C2 amended: on the scenario input with threshold 85 no record is dropped
\* (the scores are 71, 83 and 59), and the tally of the deduplicated funds
\* with minimum 2 is {AAPL: 3}.
C2_ScenarioKeepsAll ==
    ScenarioRun =>
        /\ fn_kept = ScenarioFunds
        /\ fn_tally = [t \in {"AAPL"} |-> 3]

C2_Witness ==
    /\ ScenarioRun
    /\ ratio(FundAPlus, FundA) = 71
    /\ Len(fn_kept) = 3

\* C4: the output of filter_similar_funds is a sub-sequence of its input
\* (same records, same relative order) and the first input record survives.
C4_OutputIsSubsequence ==
    Deduped =>
        /\ IsSubsequence(fn_kept, fn_input)
        /\ fn_input # << >> => (fn_kept # << >> /\ fn_kept[1] = fn_input[1])

C4_Witness ==
    /\ fn_pc = "deduped"
    /\ Len(fn_input) = 3
    /\ Len(fn_kept) = 2
    /\ fn_kept = <<fn_input[1], fn_input[3]>>

\* C6: 'GOOG' is never a key of the tally, whatever the input and the
\* minimum; every other ticker is a key exactly when it occurs at least
\* the minimum number of times, with its full count.
C6_ExcludedTickerNeverTallied ==
    fn_pc \in {"tallied", "tallied_input"} =>
        LET df == IF fn_pc = "tallied" THEN fn_kept ELSE fn_input
        IN  /\ "GOOG" \notin DOMAIN fn_tally
            /\ \A t \in DOMAIN fn_tally : fn_tally[t] = Occurrences(df, t)
            /\ \A t \in Tickers \ {"GOOG"} :
                  Occurrences(df, t) >= fn_min => t \in DOMAIN fn_tally

C6_Witness ==
    /\ fn_pc = "tallied_input"
    /\ fn_min = 2
    /\ Occurrences(fn_input, "GOOG") >= 2
    /\ "AAPL" \in DOMAIN fn_tally

\* C8: filter_similar_funds drops a candidate exactly when it scores above
\* the threshold against a record already kept: its output is that of the
\* greedy algorithm that compares each candidate with the kept set.
C8_EqualsGreedyDedupe ==
    Deduped => fn_kept = GreedyDedupe(fn_input, fn_threshold)

\* C10 as stated: with threshold 100 exactly the records whose name an
\* earlier record carries are removed; with threshold 0 at most one record
\* survives.
C10_EdgeThresholdsAsStated ==
    Deduped =>
        /\ fn_threshold = 100 => fn_kept = FirstOccurrences(fn_input)
        /\ fn_threshold = 0 => Len(fn_kept) <= 1

\* C10 amended: with threshold 100 nothing is removed, exact duplicates
\* included; with threshold 0 a record survives exactly when the first
\* record carrying its name scores 0 against every record before it.
C10_EdgeThresholds ==
    Deduped =>
        /\ fn_threshold = 100 => fn_kept = fn_input
        /\ fn_threshold = 0 =>
              \A i \in 1..Len(fn_input) :
                  Survives(i) <=>
                      \A j \in 1..(FirstIndexOf(fn_input[i].Fund) - 1) :
                          ratio(fn_input[i].Fund, fn_input[j].Fund) = 0

C10_Witness ==
    /\ fn_pc = "deduped"
    /\ fn_threshold = 0
    /\ Len(fn_input) = 3
    /\ Len(fn_kept) = 2
    /\ fn_kept[1].Fund # fn_kept[2].Fund

(***************************************************************************)
(* Properties of the pipeline (specification Spec)                         *)
(***************************************************************************)
Loaded == pc \in {"loaded", "done"}

\* where the loops stand once the current row has been skipped or appended
\* and nothing else has happened
AtNextRowOrPage ==
    IF pos < nrows
    THEN pc' = "rows" /\ page' = page /\ pos' = pos + 1
    ELSE IF page < LastPage
         THEN pc' = "fetch" /\ page' = page + 1
         ELSE pc' = "finish"

HasWarning(w) == \E k \in 1..Len(warnings) : warnings[k] = w

HasFund(id) == \E k \in 1..Len(fund_data) : fund_data[k].Id = id

\* C3: every ticker of the frame a refresh shows has a count of at least
\* the configured minimum, MIN_APPEARANCES = 6.
C3_ShownCountsReachConfiguredMinimum ==
    Loaded => \A t \in DOMAIN df_stocks : df_stocks[t] >= MIN_APPEARANCES

\* C5: a failure on one fund's holdings skips that fund only: the funds
\* collected so far are kept, the fund itself is never collected, and the
\* loop goes on with the next row of the page or, after the last row, with
\* the next page; a failed page fetch adds no fund and the next page is
\* fetched.
C5_FailureSkipsOnlyThatItem ==
    /\ [](\A k \in 1..Len(fund_data) : ~HasWarning(<<"fund", fund_data[k].Id>>))
    /\ [][/\ (pc = "rows" /\ warnings' = Append(warnings, <<"fund", <<page, pos>>>>))
             => (fund_data' = fund_data /\ AtNextRowOrPage)
          /\ (pc = "fetch" /\ warnings' = Append(warnings, <<"page", page>>))
             => /\ fund_data' = fund_data
                /\ IF page < LastPage
                   THEN pc' = "fetch" /\ page' = page + 1
                   ELSE pc' = "finish"]_vars

C5_Witness ==
    /\ pc = "done"
    /\ warnings = << <<"fund", <<1, 1>>>> >>
    /\ HasFund(<<1, 2>>)
    /\ HasFund(<<2, 1>>)
    /\ ~HasFund(<<1, 1>>)

\* C7: a refresh that collects no fund, or in which no ticker reaches the
\* minimum appearance count (MIN_APPEARANCES) among the deduplicated funds,
\* ends with an empty frame, the error message shown and nothing rendered.
C7_NoDataOutcome ==
    (/\ pc = "done"
     /\ \/ fund_data = << >>
        \/ \A t \in Tickers \ {"GOOG"} :
              Occurrences(filter_similar_funds(fund_data, SIMILARITY_THRESHOLD), t)
                  < MIN_APPEARANCES)
    => (df_stocks = EmptyFrame /\ errorShown /\ ~tableShown)

\* C9: whatever goes wrong with a row, only that row is skipped: after any
\* row the loop stands at the next row of the same page or, after the last
\* row, at the next page.
C9_RowErrorSkipsOnlyThatRow ==
    [][pc = "rows" => AtNextRowOrPage]_vars

====
